---------------------------- MODULE Spec2Model ----------------------------
(* Havvarsel integration: the API client's response normalizer, nearest-    *)
(* sample resolver, compatibility projector and metadata catalog, and the   *)
(* coordinator's refresh cycle, modelled from custom_components/havvarsel.  *)
EXTENDS Integers, Sequences, FiniteSets, TLC

(***************************************************************************)
(* Bounds of the model                                                     *)
(***************************************************************************)
\* Total number of samples (key/value pairs and variable data points) that an
\* upstream projection payload carries.
MaxSamples == 2

(***************************************************************************)
(* JSON values as the client sees them (tagged, so that values of          *)
(* different JSON types can be compared)                                   *)
(***************************************************************************)
JNull == [k |-> "null", v |-> 0]
JMissing == [k |-> "missing", v |-> 0]
JNum(n) == [k |-> "num", v |-> n]
\* a JSON string that Python's float() accepts and converts to n
JNumStr(n) == [k |-> "numstr", v |-> n]
\* a JSON string float() accepts as a special value ("nan")
JNanStr == [k |-> "nanstr", v |-> 0]
\* a JSON string float() rejects with ValueError ("abc")
JBadStr == [k |-> "badstr", v |-> 0]

\* Python values of a parsed sample
None == [k |-> "none", v |-> 0]
Float(n) == [k |-> "float", v |-> n]
NaN == [k |-> "nan", v |-> 0]

\* a Python str
Str(s) == [k |-> "str", v |-> s]

\* dict.get(key): a missing key and a JSON null both read as None
PyGet(val) == IF val.k \in {"null", "missing"} THEN None ELSE val

ParseFloat_NoGuard(val) ==
    CASE val.k = "num" -> Float(val.v)
      [] val.k = "numstr" -> Float(val.v)
      [] val.k = "nanstr" -> NaN
      [] OTHER -> [k |-> "raised", v |-> 0]

\* value_float = float(var_value) if var_value is not None else None,
\* ValueError and TypeError caught
ParseFloat(val) ==
    CASE val.k \in {"null", "missing"} -> None
      [] val.k = "num" -> Float(val.v)
      [] val.k = "numstr" -> Float(val.v)
      [] val.k = "nanstr" -> NaN
      [] OTHER -> None

(***************************************************************************)
(* datetime.fromtimestamp(raw_time / 1000, tz=UTC).isoformat()             *)
(* A timestamp string is the sequence of its character codes.              *)
(***************************************************************************)
Digit(d) == 48 + d
Digits2(n) == <<Digit((n \div 10) % 10), Digit(n % 10)>>
Digits3(n) == <<Digit((n \div 100) % 10)>> \o Digits2(n)
Digits4(n) == <<Digit((n \div 1000) % 10)>> \o Digits3(n)

\* proleptic Gregorian date of a day number counted from 1970-01-01
CivilFromDays(z) ==
    LET zz == z + 719468
        era == zz \div 146097
        doe == zz - era * 146097
        yoe == (doe - (doe \div 1460) + (doe \div 36524) - (doe \div 146096)) \div 365
        doy == doe - (365 * yoe + (yoe \div 4) - (yoe \div 100))
        mp == (5 * doy + 2) \div 153
        d == doy - ((153 * mp + 2) \div 5) + 1
        m == IF mp < 10 THEN mp + 3 ELSE mp - 9
        y == yoe + era * 400 + (IF m <= 2 THEN 1 ELSE 0)
    IN  [year |-> y, month |-> m, day |-> d]

IsoFormat_NoFraction(raw_time) ==
    LET secs == raw_time \div 1000
        date == CivilFromDays(secs \div 86400)
        sod == secs % 86400
    IN  Digits4(date.year) \o <<45>> \o Digits2(date.month) \o <<45>>
        \o Digits2(date.day) \o <<84>> \o Digits2(sod \div 3600) \o <<58>>
        \o Digits2((sod % 3600) \div 60) \o <<58>> \o Digits2(sod % 60)
        \o <<43, 48, 48, 58, 48, 48>>

\* "YYYY-MM-DDTHH:MM:SS[.ffffff]+00:00": the fraction is printed only when
\* the microsecond field is not zero
IsoFormat(raw_time) ==
    LET secs == raw_time \div 1000
        ms == raw_time % 1000
        date == CivilFromDays(secs \div 86400)
        sod == secs % 86400
    IN  Digits4(date.year) \o <<45>> \o Digits2(date.month) \o <<45>>
        \o Digits2(date.day) \o <<84>> \o Digits2(sod \div 3600) \o <<58>>
        \o Digits2((sod % 3600) \div 60) \o <<58>> \o Digits2(sod % 60)
        \o (IF ms = 0 THEN <<>> ELSE <<46>> \o Digits3(ms) \o <<48, 48, 48>>)
        \o <<43, 48, 48, 58, 48, 48>>

\* Python's str comparison: code point by code point, a proper prefix first
StrLess(a, b) ==
    \E i \in 1..(Len(b)) :
        /\ \A j \in 1..(i - 1) : j <= Len(a) /\ a[j] = b[j]
        /\ \/ i > Len(a)
           \/ i <= Len(a) /\ a[i] < b[i]

(***************************************************************************)
(* list.sort(key=lambda x: x.get("timestamp", "")): a stable sort          *)
(***************************************************************************)
RECURSIVE InsertByTimestamp(_, _)
InsertByTimestamp(sorted, e) ==
    IF sorted = <<>> THEN <<e>>
    ELSE IF StrLess(e.timestamp, sorted[Len(sorted)].timestamp)
         THEN InsertByTimestamp(SubSeq(sorted, 1, Len(sorted) - 1), e)
              \o <<sorted[Len(sorted)]>>
         ELSE sorted \o <<e>>

RECURSIVE SortFrom(_, _)
SortFrom(acc, s) ==
    IF s = <<>> THEN acc
    ELSE SortFrom(InsertByTimestamp(acc, Head(s)), Tail(s))

SortSeries_Unsorted(series) == series

\* a sort that is ascending but puts entries of equal timestamp in reverse
SortSeries_Unstable(series) ==
    SortFrom(<<>>, [i \in 1..Len(series) |-> series[Len(series) + 1 - i]])

SortSeries(series) == SortFrom(<<>>, series)

(***************************************************************************)
(* min(samples, key=lambda x: abs(x.get("rawTime", 0) - now_ms))           *)
(***************************************************************************)
Abs(x) == IF x < 0 THEN 0 - x ELSE x

Distance(sample, now_ms) == Abs(sample.rawTime - now_ms)

\* the scan of min(): the candidate is replaced only by a strictly smaller key
RECURSIVE MinScan(_, _, _, _)
MinScan(samples, now_ms, best, i) ==
    IF i > Len(samples) THEN best
    ELSE MinScan(samples, now_ms,
                 IF Distance(samples[i], now_ms) < Distance(samples[best], now_ms)
                 THEN i ELSE best,
                 i + 1)

\* a scan that also replaces the candidate on an equal key
RECURSIVE MinScanLast(_, _, _, _)
MinScanLast(samples, now_ms, best, i) ==
    IF i > Len(samples) THEN best
    ELSE MinScanLast(samples, now_ms,
                     IF Distance(samples[i], now_ms) <= Distance(samples[best], now_ms)
                     THEN i ELSE best,
                     i + 1)

NearestIndex_LastWins(samples, now_ms) == MinScanLast(samples, now_ms, 1, 2)

\* the latest sample instead of the nearest one
NearestIndex_Latest(samples, now_ms) ==
    CHOOSE i \in 1..Len(samples) :
        /\ \A j \in 1..Len(samples) : samples[j].rawTime <= samples[i].rawTime
        /\ \A j \in 1..(i - 1) : samples[j].rawTime < samples[i].rawTime

\* index, in samples, of the element min() returns
NearestIndex(samples, now_ms) == MinScan(samples, now_ms, 1, 2)

(***************************************************************************)
(* The client's configuration (HavvarselApiClient.__init__)                *)
(***************************************************************************)
Client == [longitude |-> 5, latitude |-> 60, depth |-> 0]

(***************************************************************************)
(* Shapes of the upstream JSON                                             *)
(***************************************************************************)
\* a JSON field that is absent, holds a non-array scalar (null), or an array
Absent == [k |-> "absent", items |-> <<>>]
Scalar == [k |-> "scalar", items |-> <<>>]
List(items) == [k |-> "list", items |-> items]

\* an element of an array that is not a JSON object (a number, a string)
NonObject == [obj |-> FALSE]

\* {"key": key, "value": value}; key "" stands for a missing or empty key
Pair(key, value) == [obj |-> TRUE, key |-> key, value |-> value]
\* {"rawTime": raw_time, "data": [pairs]}
TimePoint(raw_time, pairs) == [obj |-> TRUE, rawTime |-> raw_time, data |-> pairs]
\* {"rawTime": raw_time, "value": value} of a variable's "data" array
DataPoint(raw_time, value) == [rawTime |-> raw_time, value |-> value]
\* {"variableName": .., "variable": .., "metadata": [..], "data": [..]};
\* a name "" stands for a missing key
Variable(variableName, variable, metadata, points) ==
    [obj |-> TRUE, variableName |-> variableName, variable |-> variable,
     metadata |-> metadata, data |-> points]

\* {"key": key, "value": value} of a metadata array; value is Str(..), JNull
\* or JMissing
Meta(key, value) == [obj |-> TRUE, key |-> key, value |-> value]

\* the name -> metadata-array mapping of async_get_variables_metadata, as the
\* sequence of its items in insertion order; a metadata value is a list or,
\* when the body carried "metadata": null, None
MdList(items) == [k |-> "list", items |-> items]
MdNone == [k |-> "none", items |-> <<>>]

HasKey(dict, name) == \E i \in 1..Len(dict) : dict[i].name = name
IndexOf(dict, name) == CHOOSE i \in 1..Len(dict) : dict[i].name = name

\* variables_metadata.get(var_key, [])
MetadataGet(variables_metadata, var_key) ==
    IF HasKey(variables_metadata, var_key)
    THEN variables_metadata[IndexOf(variables_metadata, var_key)].metadata
    ELSE MdList(<<>>)

(***************************************************************************)
(* _parse_projection_response: the time-point-major path                   *)
(***************************************************************************)
SeriesEntry(raw_time, value) == [timestamp |-> IsoFormat(raw_time), value |-> value]

\* variables[var_key] = {...} on first sight, then the two appends
AddSample(vars, var_key, var_metadata, raw_time, value_float) ==
    LET known == HasKey(vars, var_key)
        vs == IF known THEN vars
              ELSE Append(vars, [name |-> var_key, metadata |-> var_metadata.items,
                                 series |-> <<>>, current |-> None,
                                 raw_data |-> <<>>])
        i == IndexOf(vs, var_key)
    IN  [vs EXCEPT ![i].series = Append(@, SeriesEntry(raw_time, value_float)),
                   ![i].raw_data = Append(@, DataPoint(raw_time, value_float))]

\* for item in nested_data: ...
RECURSIVE ScanItems(_, _, _, _)
ScanItems(st, items, raw_time, variables_metadata) ==
    IF st.err \/ items = <<>> THEN st
    ELSE LET item == Head(items) IN
         IF ~item.obj THEN [st EXCEPT !.err = TRUE]
         ELSE IF item.key = "" THEN ScanItems(st, Tail(items), raw_time, variables_metadata)
         ELSE LET var_metadata == MetadataGet(variables_metadata, item.key) IN
              \* len(var_metadata) raises TypeError on None
              IF ~HasKey(st.vars, item.key) /\ var_metadata.k = "none"
              THEN [st EXCEPT !.err = TRUE]
              ELSE ScanItems([st EXCEPT !.vars = AddSample(@, item.key, var_metadata,
                                                 raw_time, ParseFloat(item.value))],
                             Tail(items), raw_time, variables_metadata)

\* for time_point in data_array: ...
RECURSIVE ScanTimePoints(_, _, _)
ScanTimePoints(st, data_array, variables_metadata) ==
    IF st.err \/ data_array = <<>> THEN st
    ELSE LET time_point == Head(data_array) IN
         IF ~time_point.obj THEN [st EXCEPT !.err = TRUE]
         ELSE ScanTimePoints(ScanItems(st, time_point.data, time_point.rawTime,
                                       variables_metadata),
                             Tail(data_array), variables_metadata)

\* nearest = min(raw_data, ...); current = nearest value; series.sort(...)
FinishVariable(var_info, now_ms) ==
    [name |-> var_info.name,
     metadata |-> var_info.metadata,
     series |-> SortSeries(var_info.series),
     current |-> IF var_info.raw_data # <<>>
                 THEN var_info.raw_data[NearestIndex(var_info.raw_data, now_ms)].value
                 ELSE var_info.current]

\* closest_grid = data.get("closestGridPointWithData", {lat, lon}) and the
\* returned dict
MakeResult(data, variables) ==
    LET closest_grid == IF data.grid.k = "absent"
                        THEN [k |-> "object", lat |-> Client.latitude,
                              lon |-> Client.longitude]
                        ELSE data.grid
    IN  [variables |-> variables,
         nearest_grid |-> closest_grid,
         nearest_grid_lon |-> IF closest_grid.k = "object" THEN closest_grid.lon
                              ELSE Client.longitude,
         nearest_grid_lat |-> IF closest_grid.k = "object" THEN closest_grid.lat
                              ELSE Client.latitude,
         longitude |-> Client.longitude,
         latitude |-> Client.latitude]

Raised == [ok |-> FALSE, result |-> MakeResult([grid |-> Absent], <<>>)]
Returned(result) == [ok |-> TRUE, result |-> result]

\* data_array = data.get("data") or []: a null "data" read as no time points
ParseTimePointMajor_Lenient(data, variables_metadata, now_ms) ==
    LET st == ScanTimePoints([err |-> FALSE, vars |-> <<>>], data.data.items,
                             variables_metadata)
    IN  IF st.err THEN Raised
        ELSE Returned(MakeResult(data,
                 [i \in 1..Len(st.vars) |-> FinishVariable(st.vars[i], now_ms)]))

ParseTimePointMajor(data, variables_metadata, now_ms) ==
    \* data_array = data.get("data", []); len(data_array) raises on a scalar
    IF data.data.k = "scalar" THEN Raised
    ELSE LET st == ScanTimePoints([err |-> FALSE, vars |-> <<>>], data.data.items,
                                  variables_metadata)
         IN  IF st.err THEN Raised
             ELSE Returned(MakeResult(data,
                      [i \in 1..Len(st.vars) |-> FinishVariable(st.vars[i], now_ms)]))

(***************************************************************************)
(* _parse_temperatureprojection_format: the variables-array path           *)
(***************************************************************************)
\* one element of the "variables" array
VariableInfo(name, var, now_ms) ==
    [name |-> name,
     metadata |-> var.metadata,
     series |-> SortSeries([i \in 1..Len(var.data) |->
                    SeriesEntry(var.data[i].rawTime, PyGet(var.data[i].value))]),
     current |-> IF var.data # <<>>
                 THEN PyGet(var.data[NearestIndex(var.data, now_ms)].value)
                 ELSE None]

\* variables[name] = {...}: a dict keeps the place of a key it already holds
DictSet_Append(vars, info) == Append(vars, info)

DictSet(vars, info) ==
    IF HasKey(vars, info.name)
    THEN [vars EXCEPT ![IndexOf(vars, info.name)] = info]
    ELSE Append(vars, info)

\* for var in variables_list: ...
RECURSIVE ScanVariables(_, _, _)
ScanVariables(st, variables_list, now_ms) ==
    IF st.err \/ variables_list = <<>> THEN st
    ELSE LET var == Head(variables_list) IN
         IF ~var.obj THEN [st EXCEPT !.err = TRUE]
         ELSE LET name == IF var.variableName # "" THEN var.variableName
                          ELSE var.variable
              IN  IF name = "" THEN ScanVariables(st, Tail(variables_list), now_ms)
                  ELSE ScanVariables(
                           [st EXCEPT !.vars = DictSet(@, VariableInfo(name, var, now_ms))],
                           Tail(variables_list), now_ms)

ParseTemperatureProjectionFormat(data, now_ms) ==
    LET st == ScanVariables([err |-> FALSE, vars |-> <<>>], data.variables.items, now_ms)
    IN  IF st.err THEN Raised ELSE Returned(MakeResult(data, st.vars))

(***************************************************************************)
(* _parse_projection_response: shape detection                             *)
(***************************************************************************)
ParseProjectionResponse_DataFirst(data, variables_metadata, now_ms) ==
    IF data.top # "object" THEN Raised
    ELSE IF data.data.k = "list"
         THEN ParseTimePointMajor(data, variables_metadata, now_ms)
         ELSE ParseTemperatureProjectionFormat(data, now_ms)

ParseProjectionResponse(data, variables_metadata, now_ms) ==
    \* a top-level array has no "variables" member and no get()
    IF data.top # "object" THEN Raised
    ELSE IF data.variables.k = "list"
         THEN ParseTemperatureProjectionFormat(data, now_ms)
         ELSE ParseTimePointMajor(data, variables_metadata, now_ms)

\* a parser that sorts in place: every variable's "data" array of the
\* payload is left in another order
InputsAfter_Reordered(data, variables_metadata) ==
    [data |-> [data EXCEPT !.variables.items =
                   [i \in 1..Len(@) |->
                       IF @[i].obj
                       THEN [@[i] EXCEPT !.data =
                                [n \in 1..Len(@) |-> @[Len(@) + 1 - n]]]
                       ELSE @[i]]],
     variables_metadata |-> variables_metadata]

\* the arguments as the parse and the projector leave them: both only read
\* them (get, iteration, min); append, pop and sort act on the lists and
\* dicts the parse builds itself
InputsAfter(data, variables_metadata) ==
    [data |-> data, variables_metadata |-> variables_metadata]

(***************************************************************************)
(* async_get_temperature_data: the compatibility projector                 *)
(***************************************************************************)
NoTimestamp == [k |-> "none", s |-> <<>>]
Timestamp(s) == [k |-> "str", s |-> s]

\* temp = variables.get("temperature") or next(iter(variables.values()), None)
\* (a variable's dict always has keys, so it is never falsy)
ChosenIndex_First(variables) == IF variables = <<>> THEN 0 ELSE 1

ChosenIndex(variables) ==
    IF HasKey(variables, "temperature") THEN IndexOf(variables, "temperature")
    ELSE IF variables # <<>> THEN 1
    ELSE 0

LegacyRaised ==
    [ok |-> FALSE, current_temperature |-> None, timestamp |-> NoTimestamp,
     longitude |-> 0, latitude |-> 0, nearest_grid_lon |-> 0, nearest_grid_lat |-> 0,
     forecast |-> <<>>]

\* a timestamp taken from the end of the series
LegacyTimestamp_Last(series) ==
    IF series = <<>> THEN NoTimestamp
    ELSE Timestamp(series[Len(series)].timestamp)

\* if temp.get("series"): timestamp = temp.get("series")[0].get("timestamp")
LegacyTimestamp(series) ==
    IF series = <<>> THEN NoTimestamp
    ELSE Timestamp(series[1].timestamp)

TemperatureData(projection) ==
    LET variables == projection.variables
        c == ChosenIndex(variables)
        series == IF c = 0 THEN <<>> ELSE variables[c].series
    IN  \* nearest_grid.get("lon") raises on a null nearest grid
        IF projection.nearest_grid.k # "object" THEN LegacyRaised
        ELSE [ok |-> TRUE,
              current_temperature |-> IF c = 0 THEN None ELSE variables[c].current,
              timestamp |-> LegacyTimestamp(series),
              longitude |-> projection.longitude,
              latitude |-> projection.latitude,
              nearest_grid_lon |-> projection.nearest_grid.lon,
              nearest_grid_lat |-> projection.nearest_grid.lat,
              forecast |-> [i \in 1..Len(series) |->
                               [timestamp |-> series[i].timestamp,
                                temperature |-> series[i].value]]]

(***************************************************************************)
(* The metadata catalog: GET {base}/dataprojectionvariables                *)
(***************************************************************************)
\* What a GET ends with: a decoded JSON body, or a failure of the call
\* (async_timeout's TimeoutError, an aiohttp ClientError, raise_for_status)
Failures == {"timeout", "connection", "status"}
Failed(why) == [k |-> why, body |-> <<>>]
Body(json) == [k |-> "body", body |-> <<json>>]
IsBody(response) == response.k = "body"
JsonOf(response) == response.body[1]

\* a row {"variableName": name, "metadata": metadata}; name "" stands for a
\* missing or empty name, UnhashableName for a name that is a JSON array
UnhashableName == "[..]"
Row(name, metadata) == [obj |-> TRUE, variableName |-> name, metadata |-> metadata]
\* the body {"row": row} (top "object") or a body that is no JSON object
CatalogBody(top, row) == [top |-> top, row |-> row]

FallbackVariables ==
    <<[name |-> "temperature", description |-> Str("Sea water potential temperature")]>>

\* for meta in metadata: the value of the first "long_name" entry
RECURSIVE LongName(_, _)
LongName(metadata, var_name) ==
    IF metadata = <<>> THEN Str(var_name)
    ELSE LET meta == Head(metadata) IN
         IF (IF meta.obj THEN meta.key = "long_name" ELSE FALSE)
         THEN \* meta.get("value", var_name)
              IF meta.value.k = "missing" THEN Str(var_name)
              ELSE IF meta.value.k = "null" THEN None
              ELSE meta.value
         ELSE LongName(Tail(metadata), var_name)

\* variables_dict[var_name] = long_name
SetDescription(dict, var_name, long_name) ==
    IF HasKey(dict, var_name)
    THEN [dict EXCEPT ![IndexOf(dict, var_name)].description = long_name]
    ELSE Append(dict, [name |-> var_name, description |-> long_name])

\* async_get_available_variables, for item in row: ...
RECURSIVE ScanRows(_, _)
ScanRows(st, row) ==
    IF st.err \/ row = <<>> THEN st
    ELSE LET item == Head(row) IN
         IF ~item.obj THEN ScanRows(st, Tail(row))
         ELSE IF item.variableName = "" \/ item.variableName = "time"
         THEN ScanRows(st, Tail(row))
         \* a list is no dict key: TypeError
         ELSE IF item.variableName = UnhashableName THEN [st EXCEPT !.err = TRUE]
         ELSE ScanRows(
                  [st EXCEPT !.dict =
                      SetDescription(@, item.variableName,
                          LongName(IF item.metadata.k = "list" THEN item.metadata.items
                                   ELSE <<>>,
                                   item.variableName))],
                  Tail(row))

\* the try block of async_get_available_variables: the mapping it returns,
\* or err when an exception leaves it
AvailableVariablesTry(response) ==
    IF ~IsBody(response) THEN [err |-> TRUE, dict |-> <<>>]
    ELSE LET data == JsonOf(response) IN
         IF data.top = "object" /\ data.row.k = "list"
         THEN LET st == ScanRows([err |-> FALSE, dict |-> <<>>], data.row.items)
              IN  IF st.err THEN st
                  ELSE IF st.dict # <<>> THEN st
                  ELSE [err |-> FALSE, dict |-> FallbackVariables]
         ELSE [err |-> FALSE, dict |-> FallbackVariables]

\* no except clause: the exception reaches the caller
AvailableVariables_Unguarded(response) ==
    LET r == AvailableVariablesTry(response)
    IN  [raised |-> r.err, value |-> r.dict]

\* async_get_available_variables: except Exception -> the fallback
AvailableVariables(response) ==
    LET r == AvailableVariablesTry(response)
    IN  [raised |-> FALSE, value |-> IF r.err THEN FallbackVariables ELSE r.dict]

\* the "°C" that async_get_units falls back to
FallbackUnit == Str("*C")

\* async_get_units, for meta in metadata: the first "units" entry returns
RECURSIVE ScanUnits(_)
ScanUnits(metadata) ==
    IF metadata = <<>> THEN [k |-> "next", value |-> None]
    ELSE LET meta == Head(metadata) IN
         \* meta.get on something that is no dict: AttributeError
         IF ~meta.obj THEN [k |-> "raise", value |-> None]
         ELSE IF meta.key = "units"
         THEN \* meta.get("value", "°C")
              [k |-> "return",
               value |-> IF meta.value.k = "missing" THEN FallbackUnit
                         ELSE IF meta.value.k = "null" THEN None
                         ELSE meta.value]
         ELSE ScanUnits(Tail(metadata))

\* async_get_units, for variable in variables: ...
RECURSIVE ScanUnitRows(_)
ScanUnitRows(row) ==
    IF row = <<>> THEN [k |-> "next", value |-> None]
    ELSE LET variable == Head(row) IN
         IF ~variable.obj THEN [k |-> "raise", value |-> None]
         ELSE IF variable.variableName = "temperature"
         THEN \* variable.get("metadata", []); iterating a null: TypeError
              IF variable.metadata.k = "scalar" THEN [k |-> "raise", value |-> None]
              ELSE LET r == ScanUnits(IF variable.metadata.k = "list"
                                      THEN variable.metadata.items ELSE <<>>)
                   IN  IF r.k = "next" THEN ScanUnitRows(Tail(row)) ELSE r
         ELSE ScanUnitRows(Tail(row))

\* the try block of async_get_units: what it returns, k = "next" when it
\* reaches the return after the loops, k = "raise" when an exception leaves it
UnitsTry(response) ==
    IF ~IsBody(response) THEN [k |-> "raise", value |-> None]
    ELSE LET data == JsonOf(response) IN
         \* data.get on a body that is no object: AttributeError
         IF data.top # "object" THEN [k |-> "raise", value |-> None]
         ELSE IF data.row.k = "scalar" THEN [k |-> "raise", value |-> None]
         ELSE IF data.row.k = "absent" THEN [k |-> "next", value |-> None]
         ELSE ScanUnitRows(data.row.items)

\* no except clause: the exception reaches the caller
GetUnits_Unguarded(response) ==
    LET r == UnitsTry(response)
    IN  [raised |-> r.k = "raise",
         value |-> IF r.k = "return" THEN r.value ELSE FallbackUnit]

\* async_get_units: except Exception -> "°C"
GetUnits(response) ==
    LET r == UnitsTry(response)
    IN  [raised |-> FALSE,
         value |-> IF r.k = "return" THEN r.value ELSE FallbackUnit]

\* metadata_dict[var_name] = metadata
SetMetadata(dict, var_name, metadata) ==
    IF HasKey(dict, var_name)
    THEN [dict EXCEPT ![IndexOf(dict, var_name)].metadata = metadata]
    ELSE Append(dict, [name |-> var_name, metadata |-> metadata])

\* async_get_variables_metadata, for item in row: ...
RECURSIVE ScanMetadataRows(_, _)
ScanMetadataRows(st, row) ==
    IF st.err \/ row = <<>> THEN st
    ELSE LET item == Head(row) IN
         IF ~item.obj THEN ScanMetadataRows(st, Tail(row))
         ELSE IF item.variableName = "" \/ item.variableName = "time"
         THEN ScanMetadataRows(st, Tail(row))
         ELSE IF item.variableName = UnhashableName THEN [st EXCEPT !.err = TRUE]
         ELSE ScanMetadataRows(
                  [st EXCEPT !.dict =
                      SetMetadata(@, item.variableName,
                          \* item.get("metadata", []): a null stays None
                          IF item.metadata.k = "list" THEN MdList(item.metadata.items)
                          ELSE IF item.metadata.k = "absent" THEN MdList(<<>>)
                          ELSE MdNone)],
                  Tail(row))

\* the try block of async_get_variables_metadata: the mapping it returns, or
\* err when an exception leaves it
VariablesMetadataTry(response) ==
    IF ~IsBody(response) THEN [err |-> TRUE, dict |-> <<>>]
    ELSE LET data == JsonOf(response) IN
         IF data.top = "object" /\ data.row.k = "list"
         THEN ScanMetadataRows([err |-> FALSE, dict |-> <<>>], data.row.items)
         ELSE [err |-> FALSE, dict |-> <<>>]

\* an except clause that returns what was collected before the exception
GetVariablesMetadata_Partial(response) ==
    LET r == VariablesMetadataTry(response)
    IN  [raised |-> FALSE, value |-> r.dict]

\* async_get_variables_metadata: except Exception -> {}
GetVariablesMetadata(response) ==
    LET r == VariablesMetadataTry(response)
    IN  [raised |-> FALSE, value |-> IF r.err THEN <<>> ELSE r.dict]

\* the mapping async_get_projection receives
VariablesMetadata(response) == GetVariablesMetadata(response).value

(***************************************************************************)
(* The entity registry and _get_enabled_variables                          *)
(* A str is the sequence of its pieces, "_" being a piece of its own.      *)
(***************************************************************************)
\* str.split("_")
RECURSIVE SplitFrom(_, _)
SplitFrom(parts, s) ==
    IF s = <<>> THEN parts
    ELSE IF Head(s) = "_" THEN SplitFrom(Append(parts, <<>>), Tail(s))
    ELSE SplitFrom([parts EXCEPT ![Len(parts)] = Append(@, Head(s))], Tail(s))

Split(s) == SplitFrom(<< <<>> >>, s)

\* "_".join(parts)
RECURSIVE Join(_)
Join(parts) ==
    IF parts = <<>> THEN <<>>
    ELSE IF Len(parts) = 1 THEN parts[1]
    ELSE parts[1] \o <<"_">> \o Join(Tail(parts))

\* A sensor name is a sequence of words, " " (white space), "!" (a
\* character outside a-z0-9_-) and "_"; "Sea" is a word with an upper-case
\* letter.
Lower(c) == IF c = "Sea" THEN "sea" ELSE c

LowerAll(s) == [i \in 1..Len(s) |-> Lower(s[i])]

RECURSIVE StripLeft(_)
StripLeft(s) ==
    IF s = <<>> THEN <<>>
    ELSE IF Head(s) = " " THEN StripLeft(Tail(s)) ELSE s

Reversed(s) == [i \in 1..Len(s) |-> s[Len(s) + 1 - i]]

\* str.strip()
Strip(s) == Reversed(StripLeft(Reversed(StripLeft(s))))

\* re.sub(from+, to, s)
RECURSIVE SubRuns(_, _, _)
SubRuns(s, from, to) ==
    IF s = <<>> THEN <<>>
    ELSE IF Head(s) # from THEN <<Head(s)>> \o SubRuns(Tail(s), from, to)
    ELSE IF Len(s) = 1 THEN <<to>>
    ELSE IF s[2] = from THEN SubRuns(Tail(s), from, to)
    ELSE <<to>> \o SubRuns(Tail(s), from, to)

SlugCharacter(c) == c \notin {"!", " "}

\* config_flow.py _slugify
Slugify(name) ==
    LET s1 == LowerAll(Strip(name))
        s2 == SubRuns(s1, " ", "_")
        s3 == SelectSeq(s2, SlugCharacter)
    IN  SubRuns(s3, "_", "_")

\* the config entry's data
EntryData(sensor_name) == [sensor_name |-> sensor_name, slug |-> Slugify(sensor_name)]

\* sensor.py: entry.data.get("slug") or sensor_name.replace(" ", "_").lower()
SensorSlug(entry_data) ==
    IF entry_data.slug # <<>> THEN entry_data.slug
    ELSE LowerAll([i \in 1..Len(entry_data.sensor_name) |->
                      IF entry_data.sensor_name[i] = " " THEN "_"
                      ELSE entry_data.sensor_name[i]])

\* sensor.py: f"{slug}_{entry.entry_id}_{variable_name}"
UniqueId(slug, entry_id, variable_name) ==
    slug \o <<"_">> \o <<entry_id>> \o <<"_">> \o variable_name

Entity(config_entry_id, domain, disabled, unique_id) ==
    [config_entry_id |-> config_entry_id, domain |-> domain, disabled |-> disabled,
     unique_id |-> unique_id]

\* the config entry of this coordinator
EntryId == "e1"

\* the registry entry of a HavvarselVariableSensor, with the variable name
\* the sensor was created with
Sensor(entry_data, entry_id, variable_name, disabled) ==
    Entity(entry_id, "sensor", disabled,
           UniqueId(SensorSlug(entry_data), entry_id, variable_name))
        @@ [variable_name |-> variable_name]

\* for entity_id, entry in entity_registry.entities.items(): ...
RECURSIVE ScanEntities(_, _)
ScanEntities(enabled_vars, entities) ==
    IF entities = <<>> THEN enabled_vars
    ELSE LET entry == Head(entities)
             parts == Split(entry.unique_id)
         IN  IF /\ entry.config_entry_id = EntryId
                /\ entry.domain = "sensor"
                /\ ~entry.disabled
                /\ Len(parts) >= 3
             THEN ScanEntities(Append(enabled_vars, Join(SubSeq(parts, 3, Len(parts)))),
                               Tail(entities))
             ELSE ScanEntities(enabled_vars, Tail(entities))

Contains(list, x) == \E i \in 1..Len(list) : list[i] = x

\* a facade that requests only what the registry enables
GetEnabledVariables_NoFallback(entities) == ScanEntities(<<>>, entities)

\* _get_enabled_variables: temperature is always requested
GetEnabledVariables(entities) ==
    LET enabled_vars == ScanEntities(<<>>, entities)
    IN  IF enabled_vars = <<>> \/ ~Contains(enabled_vars, <<"temperature">>)
        THEN Append(enabled_vars, <<"temperature">>)
        ELSE enabled_vars

(***************************************************************************)
(* async_get_projection and _async_update_data                             *)
(***************************************************************************)
\* the tail of async_get_projection: the GET raised, or the body is parsed
ProjectionOutcome(response, variables_metadata, now_ms) ==
    IF IsBody(response)
    THEN ParseProjectionResponse(JsonOf(response), variables_metadata, now_ms)
    ELSE Raised

\* an update that answers a failure with an empty result instead of raising
AsyncUpdateData_Swallow(response, variables_metadata, now_ms) ==
    LET r == ProjectionOutcome(response, variables_metadata, now_ms)
    IN  [ok |-> TRUE, result |-> r.result]

\* _async_update_data: the parsed projection, or UpdateFailed on any exception
AsyncUpdateData(response, variables_metadata, now_ms) ==
    ProjectionOutcome(response, variables_metadata, now_ms)

(***************************************************************************)
(* The configuration flow                                                  *)
(***************************************************************************)
\* async_get_temperature_data over one metadata and one projection response
AsyncGetTemperatureData(metadata_response, projection_response, now_ms) ==
    LET projection == ProjectionOutcome(projection_response,
                                        VariablesMetadata(metadata_response), now_ms)
    IN  IF projection.ok THEN TemperatureData(projection.result) ELSE LegacyRaised

\* a coordinate that .get("lon") or .get("lat") did not find (None)
MissingCoordinate == 999

NoNearest == [set |-> FALSE, lat |-> MissingCoordinate, lon |-> MissingCoordinate]

\* a validation that lets the errors of the lookup through
ValidateInput_Unguarded(data, resp) ==
    [raised |-> ~resp.ok,
     title |-> data.sensor_name,
     nearest_grid |->
         IF /\ resp.ok
            /\ resp.nearest_grid_lon # MissingCoordinate
            /\ resp.nearest_grid_lat # MissingCoordinate
         THEN [set |-> TRUE, lat |-> resp.nearest_grid_lat, lon |-> resp.nearest_grid_lon]
         ELSE NoNearest]

\* validate_input: resp is what async_get_temperature_data returned or
\* raised; any exception of it leaves nearest at None
ValidateInput(data, resp) ==
    [raised |-> FALSE,
     title |-> data.sensor_name,
     nearest_grid |->
         IF /\ resp.ok
            /\ resp.nearest_grid_lon # MissingCoordinate
            /\ resp.nearest_grid_lat # MissingCoordinate
         THEN [set |-> TRUE, lat |-> resp.nearest_grid_lat, lon |-> resp.nearest_grid_lon]
         ELSE NoNearest]

\* f"{store_lat}_{store_lon}_{depth}"; Text(x) is the text of the number x
Text(x) == [text |-> x]
LocationId(store_lat, store_lon, depth) ==
    <<Text(store_lat), "_", Text(store_lon), "_", Text(depth)>>

NoEntryData ==
    [sensor_name |-> <<>>, depth |-> 0, slug |-> <<>>,
     latitude |-> MissingCoordinate, longitude |-> MissingCoordinate]

\* what the step returns: the form, an entry, or an abort
FlowResult(type, errors, unique_id, entry_data) ==
    [type |-> type, errors |-> errors, unique_id |-> unique_id, data |-> entry_data]

\* async_step_user with user input, from the return of validate_input on;
\* configured holds the unique ids of the entries that exist
AsyncStepUser(user_input, info, configured) ==
    IF info.raised THEN FlowResult("form", "cannot_connect", <<>>, NoEntryData)
    ELSE LET slug == Slugify(user_input.sensor_name)
             nearest == info.nearest_grid
             store_lat == IF nearest.set THEN nearest.lat ELSE user_input.latitude
             store_lon == IF nearest.set THEN nearest.lon ELSE user_input.longitude
             unique_id == LocationId(store_lat, store_lon, user_input.depth)
         IN  \* _abort_if_unique_id_configured
             IF unique_id \in configured
             THEN FlowResult("abort", "already_configured", unique_id, NoEntryData)
             ELSE FlowResult("create_entry", "", unique_id,
                             [sensor_name |-> user_input.sensor_name,
                              depth |-> user_input.depth,
                              slug |-> slug,
                              latitude |-> store_lat,
                              longitude |-> store_lon])

(***************************************************************************)
(* Inputs: what upstream may send, and when the parse runs                 *)
(***************************************************************************)
RawTimes == {-500, 1000, 1500}
Nows == {250, 1250}

Pairs ==
    {Pair("temperature", JNumStr(1)), Pair("temperature", JNumStr(2)),
     Pair("temperature", JNull), Pair("temperature", JBadStr),
     Pair("temperature", JNanStr),
     Pair("salinity", JNum(3)), Pair("salinity", JMissing),
     Pair("", JNumStr(1)), NonObject}

PointValues == {JNum(1), JNumStr(2), JNull}

Units == <<Meta("units", Str("degC"))>>

VariableElements ==
    {Variable("temperature", "", Units, <<>>), Variable("", "salinity", <<>>, <<>>),
     Variable("", "", <<>>, <<>>), NonObject}

MetadataMaps ==
    {<<>>, <<[name |-> "temperature", metadata |-> MdList(Units)]>>}

\* "closestGridPointWithData": a grid point {lat, lon}, or null
Grid(lat, lon) == [k |-> "object", lat |-> lat, lon |-> lon]
GridNull == [k |-> "null"]

\* what the user enters in the form; the client of the lookup is built
\* with these coordinates
UserInputs ==
    [sensor_name : {<<"home">>, <<"Sea", " ", "temperature">>},
     longitude : {Client.longitude}, latitude : {Client.latitude}, depth : {0, 10}]

\* projection bodies of the lookup: every shape of the grid point, a body
\* in the variables array shape, and a body the parse rejects
FlowPayloads ==
    [top : {"object"}, variables : {Absent},
     data : {List(<<TimePoint(1000, <<Pair("temperature", JNumStr(1))>>)>>)},
     grid : {Absent, GridNull, Grid(61, 6), Grid(61, MissingCoordinate),
             Grid(MissingCoordinate, MissingCoordinate)}]
    \cup {[top |-> "object", data |-> Absent, grid |-> Grid(61, 6),
           variables |-> List(<<Variable("temperature", "", Units,
                                         <<DataPoint(1000, JNum(1))>>)>>)],
          [top |-> "object", variables |-> Absent, data |-> List(<<NonObject>>),
           grid |-> Grid(61, 6)]}

\* payloads that carry "closestGridPointWithData", in both shapes
GridPayloads ==
    {[top |-> "object", variables |-> List(<<>>),
      data |-> List(<<TimePoint(1000, <<Pair("salinity", JNum(3))>>)>>),
      grid |-> Grid(61, 6)],
     [top |-> "object", variables |-> Scalar,
      data |-> List(<<TimePoint(1000, <<Pair("salinity", JNum(3))>>)>>),
      grid |-> GridNull]}
    \cup [top : {"object"}, variables : {Absent}, data : {Absent},
          grid : {GridNull, Grid(61, 6)}]

\* the payloads upstream starts from: every combination of an absent, scalar
\* or empty-array "variables" and "data", a "variables" array beside a "data"
\* array that already holds a time point, and a top-level array
EmptyPayloads ==
    {[top |-> "array", variables |-> Absent, data |-> Absent, grid |-> Absent],
     [top |-> "object", variables |-> List(<<>>),
      data |-> List(<<TimePoint(1000, <<Pair("salinity", JNum(3))>>)>>),
      grid |-> Absent],
     [top |-> "object", variables |-> List(<<>>), data |-> Absent, grid |-> Absent]}
    \cup [top : {"object"}, variables : {Absent, Scalar},
          data : {Absent, Scalar, List(<<>>)}, grid : {Absent}]
    \cup GridPayloads

Last(items) == items[Len(items)]

RECURSIVE SumLen(_)
SumLen(elements) ==
    IF elements = <<>> THEN 0
    ELSE (IF Head(elements).obj THEN Len(Head(elements).data) ELSE 1)
         + SumLen(Tail(elements))

\* samples and non-object elements a payload carries
SampleCount(data) == SumLen(data.variables.items) + SumLen(data.data.items)

\* a new element may follow only a non-empty one, or open the array
MayOpen(items) ==
    IF items = <<>> THEN TRUE
    ELSE IF ~items[Len(items)].obj THEN TRUE
    ELSE items[Len(items)].data # <<>>

NoLegacy == [LegacyRaised EXCEPT !.ok = TRUE]

\* catalog rows and metadata entries upstream may send
CatalogRows ==
    {Row("temperature", List(<<>>)), Row("temperature", Scalar),
     Row("salinity", Absent), Row("time", List(<<>>)), Row("", List(<<>>)),
     Row(UnhashableName, List(<<>>)), NonObject}

CatalogEntries ==
    {Meta("long_name", Str("Sea water potential temperature")),
     Meta("long_name", JMissing), Meta("long_name", JNull),
     Meta("units", Str("degC")), Meta("units", JNull), Meta("units", JMissing),
     NonObject}

EmptyCatalogs ==
    {CatalogBody("other", Absent)}
    \cup {CatalogBody("object", row) : row \in {Absent, Scalar, List(<<>>)}}

\* rows and metadata entries a catalog body carries
RECURSIVE CatalogSize(_)
CatalogSize(row) ==
    IF row = <<>> THEN 0
    ELSE 1 + (IF Head(row).obj THEN Len(Head(row).metadata.items) ELSE 0)
         + CatalogSize(Tail(row))

\* what the two GETs of a refresh cycle may end with
CycleCatalogs ==
    {CatalogBody("other", Absent),
     CatalogBody("object", List(<<Row("temperature", List(Units))>>)),
     CatalogBody("object", List(<<Row("temperature", Scalar)>>))}

CyclePayloads ==
    {[top |-> "object", variables |-> Absent, grid |-> Absent,
      data |-> List(<<TimePoint(1000, <<Pair("temperature", JNumStr(1)),
                                        Pair("salinity", JNum(3))>>),
                      TimePoint(1500, <<Pair("temperature", JNumStr(2))>>)>>)],
     [top |-> "object", data |-> Absent, grid |-> Absent,
      variables |-> List(<<Variable("temperature", "", Units,
                                    <<DataPoint(1000, JNum(1))>>)>>)],
     [top |-> "object", variables |-> Absent, data |-> Absent, grid |-> Absent],
     [top |-> "object", variables |-> Absent, data |-> List(<<NonObject>>),
      grid |-> Absent]}

MetadataResponses ==
    {Failed(why) : why \in Failures} \cup {Body(b) : b \in CycleCatalogs}
ProjectionResponses ==
    {Failed(why) : why \in Failures} \cup {Body(b) : b \in CyclePayloads}

\* states of the entity registry
Registries ==
    {<<>>,
     <<Sensor(EntryData(<<"home">>), EntryId, <<"temperature">>, FALSE),
       Sensor(EntryData(<<"home">>), EntryId, <<"salinity">>, TRUE)>>,
     <<Sensor(EntryData(<<" ", "!", "home">>), EntryId, <<"salinity">>, FALSE),
       Sensor(EntryData(<<"home">>), "e2", <<"u">>, FALSE)>>,
     <<Sensor(EntryData(<<"home">>), EntryId, <<"u", "_", "east">>, FALSE)>>,
     <<Sensor(EntryData(<<"home">>), EntryId, <<"temperature">>, TRUE),
       Sensor(EntryData(<<"home">>), EntryId, <<"salinity">>, TRUE),
       Sensor(EntryData(<<"home">>), "e2", <<"u">>, FALSE)>>,
     <<Sensor(EntryData(<<"Sea", " ", " ", "temperature">>), EntryId, <<"temperature">>, FALSE),
       Sensor(EntryData(<<"Sea", " ", " ", "temperature">>), EntryId, <<"salinity">>, TRUE)>>,
     <<Sensor(EntryData(<<"Sea", " ", " ", "temperature">>), EntryId, <<"salinity">>, FALSE)>>}

\* a sensor keeps the unique_id it was registered with
StableIds(old, new) ==
    \A i \in 1..Len(old), j \in 1..Len(new) :
        (old[i].config_entry_id = new[j].config_entry_id
             /\ old[i].variable_name = new[j].variable_name)
        => old[i].unique_id = new[j].unique_id

(***************************************************************************)
(* State                                                                   *)
(***************************************************************************)
VARIABLES
    payload,              \* the projection response body
    pc,                   \* "response" | "projected"
    now_ms,               \* datetime.now() of the parse
    variables_metadata,   \* the metadata mapping handed to the parse
    outcome,              \* what _parse_projection_response returned or raised
    legacy,               \* what async_get_temperature_data returned or raised
    catalog,              \* the response of the dataprojectionvariables GET
    cpc,                  \* "response" | "done"
    available,            \* what async_get_available_variables returned or raised
    units,                \* what async_get_units returned or raised
    metadata_dict,        \* what async_get_variables_metadata returned or raised
    registry,             \* the entity registry's entities
    api_variables,        \* HavvarselApiClient._variables
    task,                 \* the refresh cycles: where each stands, and its locals
    data,                 \* DataUpdateCoordinator.data, the published snapshot
    last_update_success,  \* DataUpdateCoordinator.last_update_success
    flow,                 \* the configuration flow in progress
    entries               \* the config entries created so far

parseVars == <<payload, pc, now_ms, variables_metadata, outcome, legacy>>
catalogVars == <<catalog, cpc, available, units, metadata_dict>>
cycleVars == <<registry, api_variables, task, data, last_update_success>>
flowVars == <<flow, entries>>
vars == <<parseVars, catalogVars, cycleVars, flowVars>>

\* refresh cycles that the model tells apart
MaxTasks == 2
Tasks == 1..MaxTasks

\* rows and metadata entries of a catalog body
MaxCatalog == 3

NoResponse == [k |-> "none", body |-> <<>>]
NoAvailable == [raised |-> FALSE, value |-> <<>>]
NoUnits == [raised |-> FALSE, value |-> None]
NoData == [set |-> FALSE, value |-> Raised.result]

\* config entries that the model tells apart
MaxEntries == 2

NoInput == [sensor_name |-> <<>>, longitude |-> 0, latitude |-> 0, depth |-> 0]
NoInfo == [raised |-> FALSE, title |-> <<>>, nearest_grid |-> NoNearest]
NoFlowResult == FlowResult("none", "", <<>>, NoEntryData)

\* a flow the user has just opened
NewFlow ==
    [pc |-> "init", user_input |-> NoInput, resp |-> NoLegacy, info |-> NoInfo,
     result |-> NoFlowResult]

IdleTask ==
    [pc |-> "idle", enabled_vars |-> <<>>, metadata_response |-> NoResponse,
     variables_metadata |-> <<>>, requested |-> <<>>,
     projection_response |-> NoResponse, now_ms |-> 0, outcome |-> Raised,
     gets |-> [metadata |-> 0, projection |-> 0]]

ParseIdle ==
    /\ payload = [top |-> "object", variables |-> Absent, data |-> Absent,
                  grid |-> Absent]
    /\ pc = "idle"
    /\ now_ms = 0
    /\ variables_metadata = <<>>
    /\ outcome = Raised
    /\ legacy = NoLegacy

CatalogIdle ==
    /\ catalog = NoResponse
    /\ cpc = "idle"
    /\ available = NoAvailable
    /\ units = NoUnits
    /\ metadata_dict = NoAvailable

FlowIdle ==
    /\ flow = NewFlow
    /\ entries = <<>>

\* HavvarselDataUpdateCoordinator.__init__: variables=["temperature"]
CycleIdle ==
    /\ registry = <<>>
    /\ api_variables = << <<"temperature">> >>
    /\ task = [t \in Tasks |-> IdleTask]
    /\ data = NoData
    /\ last_update_success = TRUE

(***************************************************************************)
(* Parsing a projection response (specification Spec)                      *)
(***************************************************************************)
Init ==
    /\ payload \in EmptyPayloads
    /\ pc = "response"
    /\ now_ms = 0
    /\ variables_metadata \in MetadataMaps
    /\ outcome = Raised
    /\ legacy = NoLegacy
    /\ CatalogIdle
    /\ CycleIdle
    /\ FlowIdle

\* upstream appends a time point to "data"
UpstreamTimePoint ==
    /\ pc = "response"
    /\ payload.data.k = "list"
    /\ MayOpen(payload.data.items)
    /\ SampleCount(payload) < MaxSamples
    /\ \E t \in RawTimes :
           payload' = [payload EXCEPT !.data.items = Append(@, TimePoint(t, <<>>))]
    /\ UNCHANGED <<pc, now_ms, variables_metadata, outcome, legacy>>
    /\ UNCHANGED <<catalogVars, cycleVars, flowVars>>

\* upstream appends a key/value pair to the last time point
UpstreamPair ==
    /\ pc = "response"
    /\ payload.data.items # <<>>
    /\ Last(payload.data.items).obj
    /\ SampleCount(payload) < MaxSamples
    /\ \E p \in Pairs :
           payload' = [payload EXCEPT
                          !.data.items[Len(payload.data.items)].data = Append(@, p)]
    /\ UNCHANGED <<pc, now_ms, variables_metadata, outcome, legacy>>
    /\ UNCHANGED <<catalogVars, cycleVars, flowVars>>

\* upstream puts something that is not an object into "data"
UpstreamBadTimePoint ==
    /\ pc = "response"
    /\ payload.data.k = "list"
    /\ SampleCount(payload) < MaxSamples
    /\ payload' = [payload EXCEPT !.data.items = Append(@, NonObject)]
    /\ UNCHANGED <<pc, now_ms, variables_metadata, outcome, legacy>>
    /\ UNCHANGED <<catalogVars, cycleVars, flowVars>>

\* upstream appends an element to "variables"
UpstreamVariable ==
    /\ pc = "response"
    /\ payload.variables.k = "list"
    /\ MayOpen(payload.variables.items)
    /\ SampleCount(payload) < MaxSamples
    /\ \E e \in VariableElements :
           payload' = [payload EXCEPT !.variables.items = Append(@, e)]
    /\ UNCHANGED <<pc, now_ms, variables_metadata, outcome, legacy>>
    /\ UNCHANGED <<catalogVars, cycleVars, flowVars>>

\* upstream appends a data point to the last variable
UpstreamDataPoint ==
    /\ pc = "response"
    /\ payload.variables.items # <<>>
    /\ Last(payload.variables.items).obj
    /\ SampleCount(payload) < MaxSamples
    /\ \E t \in RawTimes, v \in PointValues :
           payload' = [payload EXCEPT
                          !.variables.items[Len(payload.variables.items)].data =
                              Append(@, DataPoint(t, v))]
    /\ UNCHANGED <<pc, now_ms, variables_metadata, outcome, legacy>>
    /\ UNCHANGED <<catalogVars, cycleVars, flowVars>>

\* async_get_temperature_data(): the projection is parsed, then projected to
\* the legacy shape; an exception of the parse propagates
GetTemperatureData ==
    /\ pc = "response"
    /\ \E now \in Nows :
           /\ now_ms' = now
           /\ outcome' = ParseProjectionResponse(payload, variables_metadata, now)
    /\ legacy' = IF outcome'.ok THEN TemperatureData(outcome'.result) ELSE LegacyRaised
    /\ pc' = "projected"
    /\ payload' = InputsAfter(payload, variables_metadata).data
    /\ variables_metadata' = InputsAfter(payload, variables_metadata).variables_metadata
    /\ UNCHANGED <<catalogVars, cycleVars, flowVars>>

Next ==
    \/ UpstreamTimePoint
    \/ UpstreamPair
    \/ UpstreamBadTimePoint
    \/ UpstreamVariable
    \/ UpstreamDataPoint
    \/ GetTemperatureData

Spec == Init /\ [][Next]_vars

(***************************************************************************)
(* Reading the catalog (specification SpecCatalog)                         *)
(***************************************************************************)
CatalogInit ==
    /\ catalog \in {Failed(why) : why \in Failures} \cup {Body(b) : b \in EmptyCatalogs}
    /\ cpc = "response"
    /\ available = NoAvailable
    /\ units = NoUnits
    /\ metadata_dict = NoAvailable
    /\ ParseIdle
    /\ CycleIdle
    /\ FlowIdle

\* upstream appends a row to "row"
UpstreamRow ==
    /\ cpc = "response"
    /\ IsBody(catalog)
    /\ JsonOf(catalog).row.k = "list"
    /\ CatalogSize(JsonOf(catalog).row.items) < MaxCatalog
    /\ \E r \in CatalogRows :
           catalog' = [catalog EXCEPT !.body[1].row.items = Append(@, r)]
    /\ UNCHANGED <<cpc, available, units, metadata_dict, parseVars, cycleVars, flowVars>>

\* upstream appends an entry to the last row's "metadata"
UpstreamEntry ==
    /\ cpc = "response"
    /\ IsBody(catalog)
    /\ JsonOf(catalog).row.items # <<>>
    /\ Last(JsonOf(catalog).row.items).obj
    /\ Last(JsonOf(catalog).row.items).metadata.k = "list"
    /\ CatalogSize(JsonOf(catalog).row.items) < MaxCatalog
    /\ \E e \in CatalogEntries :
           catalog' = [catalog EXCEPT
                          !.body[1].row.items[Len(JsonOf(catalog).row.items)].metadata.items =
                              Append(@, e)]
    /\ UNCHANGED <<cpc, available, units, metadata_dict, parseVars, cycleVars, flowVars>>

\* async_get_available_variables()
GetAvailableVariables ==
    /\ cpc = "response"
    /\ available' = AvailableVariables(catalog)
    /\ cpc' = "done"
    /\ UNCHANGED <<catalog, units, metadata_dict, parseVars, cycleVars, flowVars>>

\* async_get_units(); GET {base}/variables answers in the same shape
GetUnitLabel ==
    /\ cpc = "response"
    /\ units' = GetUnits(catalog)
    /\ cpc' = "units"
    /\ UNCHANGED <<catalog, available, metadata_dict, parseVars, cycleVars, flowVars>>

\* async_get_variables_metadata()
GetMetadata ==
    /\ cpc = "response"
    /\ metadata_dict' = GetVariablesMetadata(catalog)
    /\ cpc' = "metadata"
    /\ UNCHANGED <<catalog, available, units, parseVars, cycleVars, flowVars>>

CatalogNext ==
    \/ UpstreamRow
    \/ UpstreamEntry
    \/ GetAvailableVariables
    \/ GetUnitLabel
    \/ GetMetadata

SpecCatalog == CatalogInit /\ [][CatalogNext]_vars

(***************************************************************************)
(* Refresh cycles (specification SpecCycle)                                *)
(***************************************************************************)
CycleInit ==
    /\ registry \in Registries
    /\ api_variables = << <<"temperature">> >>
    /\ task = [t \in Tasks |-> IdleTask]
    /\ data = NoData
    /\ last_update_success = TRUE
    /\ ParseIdle
    /\ CatalogIdle
    /\ FlowIdle

InFlight(t) == task[t].pc \in {"metadata", "projection"}

\* DataUpdateCoordinator: the value _async_update_data returns becomes data;
\* UpdateFailed leaves data as it is
CoordinatorData(r) == IF r.ok THEN [set |-> TRUE, value |-> r.result] ELSE data

\* the user enables or disables entities
RegistryChange ==
    /\ \E r \in Registries : r # registry /\ StableIds(registry, r) /\ registry' = r
    /\ UNCHANGED <<api_variables, task, data, last_update_success>>
    /\ UNCHANGED <<parseVars, catalogVars, flowVars>>

\* a scheduler that starts a refresh while another one is in flight
StartRefresh_Overlapping(t) ==
    /\ task[t].pc \in {"idle", "done"}
    /\ LET enabled_vars == GetEnabledVariables(registry) IN
       /\ api_variables' = enabled_vars
       /\ task' = [u \in Tasks |->
                     IF u = t
                     THEN [IdleTask EXCEPT !.pc = "metadata",
                                           !.enabled_vars = enabled_vars,
                                           !.gets.metadata = 1]
                     ELSE IF task[u].pc = "done" THEN IdleTask ELSE task[u]]
    /\ UNCHANGED <<registry, data, last_update_success>>
    /\ UNCHANGED <<parseVars, catalogVars, flowVars>>

\* _async_update_data up to the first await: the enabled variables are
\* written to the client and async_get_projection issues the metadata GET.
\* The scheduler starts a refresh only when none is in flight.
StartRefresh(t) ==
    /\ task[t].pc \in {"idle", "done"}
    /\ \A u \in Tasks : ~InFlight(u)
    /\ LET enabled_vars == GetEnabledVariables(registry) IN
       /\ api_variables' = enabled_vars
       /\ task' = [u \in Tasks |->
                     IF u = t
                     THEN [IdleTask EXCEPT !.pc = "metadata",
                                           !.enabled_vars = enabled_vars,
                                           !.gets.metadata = 1]
                     ELSE IF task[u].pc = "done" THEN IdleTask ELSE task[u]]
    /\ UNCHANGED <<registry, data, last_update_success>>
    /\ UNCHANGED <<parseVars, catalogVars, flowVars>>

\* a client that answers a failed metadata GET with a second one
MetadataDone_Retry(t) ==
    /\ task[t].pc = "metadata"
    /\ \E response \in MetadataResponses :
           task' = IF ~IsBody(response) /\ task[t].gets.metadata = 1
                   THEN [task EXCEPT ![t].gets.metadata = @ + 1]
                   ELSE [task EXCEPT ![t].pc = "projection",
                                     ![t].metadata_response = response,
                                     ![t].variables_metadata = VariablesMetadata(response),
                                     ![t].requested = api_variables,
                                     ![t].gets.projection = @ + 1]
    /\ UNCHANGED <<registry, api_variables, data, last_update_success>>
    /\ UNCHANGED <<parseVars, catalogVars, flowVars>>

\* the metadata GET ends; async_get_projection builds the URL from
\* self._variables and issues the projection GET
MetadataDone(t) ==
    /\ task[t].pc = "metadata"
    /\ \E response \in MetadataResponses :
           task' = [task EXCEPT ![t].pc = "projection",
                                ![t].metadata_response = response,
                                ![t].variables_metadata = VariablesMetadata(response),
                                ![t].requested = api_variables,
                                ![t].gets.projection = @ + 1]
    /\ UNCHANGED <<registry, api_variables, data, last_update_success>>
    /\ UNCHANGED <<parseVars, catalogVars, flowVars>>

\* the projection GET ends; the body is parsed and _async_update_data returns
\* it or raises UpdateFailed
ProjectionDone(t) ==
    /\ task[t].pc = "projection"
    /\ \E response \in ProjectionResponses, now \in Nows :
           LET r == AsyncUpdateData(response, task[t].variables_metadata, now) IN
           /\ task' = [task EXCEPT ![t].pc = "done",
                                   ![t].projection_response = response,
                                   ![t].now_ms = now,
                                   ![t].outcome = r]
           /\ data' = CoordinatorData(r)
           /\ last_update_success' = r.ok
    /\ UNCHANGED <<registry, api_variables>>
    /\ UNCHANGED <<parseVars, catalogVars, flowVars>>

CycleNext ==
    \/ RegistryChange
    \/ \E t \in Tasks : StartRefresh(t)
    \/ \E t \in Tasks : MetadataDone(t)
    \/ \E t \in Tasks : ProjectionDone(t)

SpecCycle == CycleInit /\ [][CycleNext]_vars

(***************************************************************************)
(* The configuration flow (specification SpecFlow)                         *)
(***************************************************************************)
FlowResponses ==
    {Failed(why) : why \in Failures} \cup {Body(b) : b \in FlowPayloads}

UniqueIds(list) == {list[i].unique_id : i \in 1..Len(list)}

FlowInit ==
    /\ flow = NewFlow
    /\ entries = <<>>
    /\ ParseIdle
    /\ CatalogIdle
    /\ CycleIdle

\* async_step_user without user input: the form is shown
ShowForm ==
    /\ flow.pc = "init"
    /\ flow' = [flow EXCEPT !.pc = "form",
                            !.result = FlowResult("form", "", <<>>, NoEntryData)]
    /\ UNCHANGED entries
    /\ UNCHANGED <<parseVars, catalogVars, cycleVars>>

\* the user submits the form: async_step_user calls validate_input, which
\* starts the lookup
Submit ==
    /\ flow.pc = "form"
    /\ \E user_input \in UserInputs :
           flow' = [flow EXCEPT !.pc = "lookup", !.user_input = user_input,
                                !.result = NoFlowResult]
    /\ UNCHANGED entries
    /\ UNCHANGED <<parseVars, catalogVars, cycleVars>>

\* the lookup ends; validate_input returns and async_step_user runs to its
\* return
LookupDone ==
    /\ flow.pc = "lookup"
    /\ \E metadata_response \in MetadataResponses,
          projection_response \in FlowResponses, now \in Nows :
           LET resp == AsyncGetTemperatureData(metadata_response,
                                               projection_response, now)
               info == ValidateInput(flow.user_input, resp)
               result == AsyncStepUser(flow.user_input, info, UniqueIds(entries))
           IN  /\ flow' = [flow EXCEPT
                              !.pc = IF result.type = "form" THEN "form" ELSE "done",
                              !.resp = resp, !.info = info, !.result = result]
               /\ entries' = IF result.type = "create_entry"
                             THEN Append(entries, [unique_id |-> result.unique_id,
                                                   data |-> result.data])
                             ELSE entries
    /\ UNCHANGED <<parseVars, catalogVars, cycleVars>>

\* the user opens the flow again
OpenFlow ==
    /\ flow.pc = "done"
    /\ Len(entries) < MaxEntries
    /\ flow' = NewFlow
    /\ UNCHANGED entries
    /\ UNCHANGED <<parseVars, catalogVars, cycleVars>>

FlowNext ==
    \/ ShowForm
    \/ Submit
    \/ LookupDone
    \/ OpenFlow

SpecFlow == FlowInit /\ [][FlowNext]_vars

(***************************************************************************)
(* Vocabulary of the properties: the payload as the properties read it     *)
(***************************************************************************)
Parsed == pc = "projected"
ParsedOk == Parsed /\ outcome.ok
ViaVariablesArray == payload.top = "object" /\ payload.variables.k = "list"
ViaTimePoints == payload.top = "object" /\ payload.variables.k # "list"

VarList == payload.variables.items
PointList == payload.data.items
ResultVars == outcome.result.variables
ResultNames == {ResultVars[i].name : i \in 1..Len(ResultVars)}
ResultVar(name) == ResultVars[CHOOSE i \in 1..Len(ResultVars) : ResultVars[i].name = name]

AllObjects(items) == \A i \in 1..Len(items) : items[i].obj

\* the name an element of "variables" goes by
ElementName(e) == IF e.variableName # "" THEN e.variableName ELSE e.variable
ElementNames == {ElementName(VarList[i]) : i \in 1..Len(VarList)} \ {""}
\* the element whose entry the result keeps for a name
LastElement(name) ==
    VarList[CHOOSE i \in 1..Len(VarList) :
                /\ ElementName(VarList[i]) = name
                /\ \A j \in (i + 1)..Len(VarList) : ElementName(VarList[j]) # name]

\* the places <<time point, pair>> of the key/value pairs, in payload order
Places ==
    {p \in (1..Len(PointList)) \X (1..MaxSamples + 1) :
        IF PointList[p[1]].obj THEN p[2] <= Len(PointList[p[1]].data) ELSE FALSE}
Before(p, q) == p[1] < q[1] \/ (p[1] = q[1] /\ p[2] < q[2])
PairAt(p) == PointList[p[1]].data[p[2]]
TimeAt(p) == PointList[p[1]].rawTime
KeyAt(p) == IF PairAt(p).obj THEN PairAt(p).key ELSE ""
PlacesOf(key) == {p \in Places : KeyAt(p) = key}
PayloadKeys == {KeyAt(p) : p \in Places} \ {""}

\* what an unparsable, a numeric and a "nan" value are expected to become
Unparsable(val) == val.k \in {"null", "missing", "badstr"}
Numeric(val) == val.k \in {"num", "numstr"}

WellFormedTimePoints ==
    /\ ViaTimePoints
    /\ payload.data.k # "scalar"
    /\ AllObjects(PointList)
    /\ \A i \in 1..Len(PointList) : AllObjects(PointList[i].data)

(***************************************************************************)
(* C1: in both parse paths a variable with samples gets as `current` the   *)
(* value of one of its samples at minimal |rawTime - now|; a variable      *)
(* without samples gets an absent `current`, and the parse does not fail.  *)
(***************************************************************************)
C1_CurrentIsNearest ==
    /\ (Parsed /\ ViaVariablesArray /\ AllObjects(VarList)) =>
          /\ outcome.ok
          /\ \A name \in ElementNames :
                LET points == LastElement(name).data
                    current == ResultVar(name).current
                IN  IF points = <<>> THEN current = None
                    ELSE \E i \in 1..Len(points) :
                            /\ current = PyGet(points[i].value)
                            /\ \A j \in 1..Len(points) :
                                   Abs(points[i].rawTime - now_ms)
                                       <= Abs(points[j].rawTime - now_ms)
    /\ (Parsed /\ WellFormedTimePoints) =>
          /\ outcome.ok
          /\ \A key \in PayloadKeys :
                \E p \in PlacesOf(key) :
                    /\ ResultVar(key).current = ParseFloat(PairAt(p).value)
                    /\ \A q \in PlacesOf(key) :
                           Abs(TimeAt(p) - now_ms) <= Abs(TimeAt(q) - now_ms)

\* a variable with two samples at different distances and of different values
C1_Witness ==
    /\ ParsedOk /\ WellFormedTimePoints
    /\ \E p, q \in PlacesOf("temperature") :
          /\ Abs(TimeAt(p) - now_ms) < Abs(TimeAt(q) - now_ms)
          /\ TimeAt(q) > TimeAt(p)
          /\ ParseFloat(PairAt(p).value) # ParseFloat(PairAt(q).value)
          /\ ResultVar("temperature").current = ParseFloat(PairAt(p).value)

(***************************************************************************)
(* C2: among samples at the same minimal distance from now, `current` is   *)
(* the value of the one that comes first in the payload, in both paths.    *)
(***************************************************************************)
C2_FirstInPayloadWins ==
    /\ (ParsedOk /\ ViaVariablesArray) =>
          \A name \in ElementNames :
              LET points == LastElement(name).data
                  nearest(i) == \A j \in 1..Len(points) :
                                    Abs(points[i].rawTime - now_ms)
                                        <= Abs(points[j].rawTime - now_ms)
              IN  \A i \in 1..Len(points) :
                      (nearest(i) /\ \A j \in 1..(i - 1) : ~nearest(j)) =>
                          ResultVar(name).current = PyGet(points[i].value)
    /\ (ParsedOk /\ ViaTimePoints) =>
          \A key \in PayloadKeys :
              LET nearest(p) == \A q \in PlacesOf(key) :
                                    Abs(TimeAt(p) - now_ms) <= Abs(TimeAt(q) - now_ms)
              IN  \A p \in PlacesOf(key) :
                      (nearest(p) /\ \A q \in PlacesOf(key) : Before(q, p) => ~nearest(q)) =>
                          ResultVar(key).current = ParseFloat(PairAt(p).value)

\* two equidistant samples of which the later one comes first in the payload:
\* `current` is its value, not that of the first entry of the sorted series
C2_Witness ==
    /\ ParsedOk /\ ViaVariablesArray
    /\ \E name \in ElementNames :
          LET points == LastElement(name).data IN
          /\ Len(points) = 2
          /\ points[1].rawTime > points[2].rawTime
          /\ Abs(points[1].rawTime - now_ms) = Abs(points[2].rawTime - now_ms)
          /\ PyGet(points[1].value) # PyGet(points[2].value)
          /\ ResultVar(name).current = PyGet(points[1].value)
          /\ ResultVar(name).series[1].value = PyGet(points[2].value)

\* every element of the "variables" array is an object with equally many samples
UniformVariables ==
    /\ ViaVariablesArray
    /\ AllObjects(VarList)
    /\ \A i, j \in 1..Len(VarList) : Len(VarList[i].data) = Len(VarList[j].data)

Perms(n) == {f \in [1..n -> 1..n] : \A a, b \in 1..n : f[a] = f[b] => a = b}

\* series holds the points, each once, earliest first, as ISO-8601 UTC instants
Chronological(series, points) ==
    /\ Len(series) = Len(points)
    /\ \E f \in Perms(Len(points)) :
          /\ \A i \in 1..Len(points) :
                /\ series[i].timestamp = IsoFormat(points[f[i]].rawTime)
                /\ series[i].value = PyGet(points[f[i]].value)
          /\ \A i \in 1..(Len(points) - 1) :
                points[f[i]].rawTime <= points[f[i + 1]].rawTime

(***************************************************************************)
(* C3 (as stated): a "variables" array of N elements with K data samples   *)
(* each yields exactly N variables of exactly K ascending series entries,  *)
(* also when elements share a name or have none.                           *)
(***************************************************************************)
C3_Original ==
    (Parsed /\ UniformVariables) =>
        /\ outcome.ok
        /\ Len(ResultVars) = Len(VarList)
        /\ \A i \in 1..Len(ResultVars) :
              \E j \in 1..Len(VarList) :
                  Chronological(ResultVars[i].series, VarList[j].data)

(***************************************************************************)
(* C3 (amended): such a payload yields one variable per distinct non-empty *)
(* name; an element without a name is skipped and the last element of a    *)
(* name replaces the earlier ones; each variable holds exactly K entries   *)
(* in ascending timestamp order.                                           *)
(***************************************************************************)
C3_OnePerDistinctName ==
    (Parsed /\ UniformVariables) =>
        /\ outcome.ok
        /\ Len(ResultVars) = Cardinality(ElementNames)
        /\ ResultNames = ElementNames
        /\ \A name \in ElementNames :
              Chronological(ResultVar(name).series, LastElement(name).data)

\* two elements of one name, and a series that the sort had to reorder
C3_Witness ==
    /\ ParsedOk /\ UniformVariables
    /\ \/ /\ Len(VarList) = 2
          /\ ElementName(VarList[1]) = ElementName(VarList[2])
          /\ ElementName(VarList[1]) # ""
          /\ VarList[1].data # VarList[2].data
          /\ Len(ResultVars) = 1
       \/ /\ Len(VarList) = 1 /\ Len(ResultVars) = 1
          /\ Len(VarList[1].data) = 2
          /\ VarList[1].data[1].rawTime > VarList[1].data[2].rawTime

\* a payload whose only series the sort had to reorder
C3_WitnessReordered ==
    /\ ParsedOk /\ UniformVariables
    /\ Len(VarList) = 1 /\ Len(ResultVars) = 1
    /\ Len(VarList[1].data) = 2
    /\ VarList[1].data[1].rawTime > VarList[1].data[2].rawTime

(***************************************************************************)
(* C4: a payload with a "variables" array is parsed by the variables-array *)
(* path alone, also beside a "data" array, whose time points contribute    *)
(* nothing; any other payload is parsed by the time-point-major path alone.*)
(***************************************************************************)
C4_ShapeDetection ==
    /\ (ParsedOk /\ ViaVariablesArray) =>
          /\ ResultNames = ElementNames
          /\ \A name \in ElementNames :
                LET points == LastElement(name).data
                    series == ResultVar(name).series
                IN  /\ Len(series) = Len(points)
                    /\ \A i \in 1..Len(series) :
                          \E j \in 1..Len(points) :
                              /\ series[i].value = PyGet(points[j].value)
                              /\ series[i].timestamp = IsoFormat(points[j].rawTime)
    /\ (ParsedOk /\ ViaTimePoints) =>
          /\ ResultNames = PayloadKeys
          /\ \A key \in PayloadKeys :
                LET series == ResultVar(key).series
                IN  /\ Len(series) = Cardinality(PlacesOf(key))
                    /\ \A i \in 1..Len(series) :
                          \E p \in PlacesOf(key) :
                              /\ series[i].value = ParseFloat(PairAt(p).value)
                              /\ series[i].timestamp = IsoFormat(TimeAt(p))

\* "variables" and "data" both hold samples; only the former's are in the result
C4_Witness ==
    /\ ParsedOk /\ ViaVariablesArray
    /\ PlacesOf("salinity") # {}
    /\ ResultNames = {"temperature"}
    /\ Len(ResultVar("temperature").series) = 1

\* how many entries of a series carry the value x
CountEntries(series, x) == Cardinality({i \in 1..Len(series) : series[i].value = x})

HasNonObject ==
    \/ ViaVariablesArray /\ ~AllObjects(VarList)
    \/ /\ ViaTimePoints
       /\ \/ ~AllObjects(PointList)
          \/ \E i \in 1..Len(PointList) :
                 IF PointList[i].obj THEN ~AllObjects(PointList[i].data) ELSE FALSE

(***************************************************************************)
(* C7 (as stated): the normalizer raises whenever the payload matches no   *)
(* known shape (neither a "variables" array nor a "data" array) or an      *)
(* array holds elements that are not objects.                              *)
(***************************************************************************)
C7_Original ==
    Parsed =>
        ((\/ payload.top # "object"
          \/ payload.variables.k # "list" /\ payload.data.k # "list"
          \/ HasNonObject) => ~outcome.ok)

(***************************************************************************)
(* C7, what the code does: it raises exactly when the payload is not an    *)
(* object, when "data" is consulted and is null or a number, or when an    *)
(* element of the consulted array, or a pair of a time point, is not an    *)
(* object; an object with neither a "variables" array nor a "data" key is  *)
(* no error: it yields a result without variables.                         *)
(***************************************************************************)
C7_RaisesOnMalformedOnly ==
    Parsed =>
        /\ ~outcome.ok <=>
              \/ payload.top # "object"
              \/ ViaTimePoints /\ payload.data.k = "scalar"
              \/ HasNonObject
        /\ (ViaTimePoints /\ payload.data.k = "absent") =>
              (outcome.ok /\ ResultVars = <<>>)

\* an object with neither "variables" nor "data" was parsed without error
C7_Witness ==
    /\ Parsed
    /\ payload.top = "object"
    /\ payload.variables.k = "absent"
    /\ payload.data.k = "absent"
    /\ outcome.ok
    /\ ResultVars = <<>>

(***************************************************************************)
(* C10: the compatibility projector reads the "temperature" variable when  *)
(* the result has one, else the first inserted variable, else nothing      *)
(* (absent current and timestamp, empty forecast); the forecast repeats    *)
(* the chosen series entry by entry.                                       *)
(***************************************************************************)
C10_Projector ==
    (ParsedOk /\ legacy.ok) =>
        LET source == IF "temperature" \in ResultNames THEN <<ResultVar("temperature")>>
                      ELSE IF ResultVars # <<>> THEN <<ResultVars[1]>>
                      ELSE <<>>
        IN  IF source = <<>>
            THEN /\ legacy.current_temperature = None
                 /\ legacy.timestamp = NoTimestamp
                 /\ legacy.forecast = <<>>
            ELSE /\ legacy.current_temperature = source[1].current
                 /\ Len(legacy.forecast) = Len(source[1].series)
                 /\ \A i \in 1..Len(legacy.forecast) :
                       /\ legacy.forecast[i].temperature = source[1].series[i].value
                       /\ legacy.forecast[i].timestamp = source[1].series[i].timestamp

\* "temperature" is not the first variable of the result and is chosen
C10_Witness ==
    /\ ParsedOk /\ legacy.ok
    /\ Len(ResultVars) = 2
    /\ ResultVars[2].name = "temperature"
    /\ ResultVars[1].current # ResultVars[2].current
    /\ legacy.current_temperature = ResultVars[2].current
    /\ Len(legacy.forecast) = 1


(***************************************************************************)
(* Vocabulary of the catalog and cycle properties                          *)
(***************************************************************************)
CatalogRead == cpc = "done"
CatalogRowList ==
    IF IsBody(catalog) THEN
        IF JsonOf(catalog).top = "object" /\ JsonOf(catalog).row.k = "list"
        THEN JsonOf(catalog).row.items ELSE <<>>
    ELSE <<>>
\* the body is an object with a "row" list
HasRowList ==
    IF IsBody(catalog)
    THEN JsonOf(catalog).top = "object" /\ JsonOf(catalog).row.k = "list"
    ELSE FALSE
\* places of the rows that name a variable
NamedRows ==
    {i \in 1..Len(CatalogRowList) :
        IF CatalogRowList[i].obj
        THEN CatalogRowList[i].variableName \notin {"", "time"}
        ELSE FALSE}
\* a row's name is no string
Surprise == \E i \in NamedRows : CatalogRowList[i].variableName = UnhashableName
RowNames == {CatalogRowList[i].variableName : i \in NamedRows}
LastRowNamed(name) ==
    CatalogRowList[CHOOSE i \in NamedRows :
                      /\ CatalogRowList[i].variableName = name
                      /\ \A j \in NamedRows :
                             CatalogRowList[j].variableName = name => j <= i]
LongNameEntries(item) ==
    IF item.metadata.k = "list"
    THEN {j \in 1..Len(item.metadata.items) :
             IF item.metadata.items[j].obj
             THEN item.metadata.items[j].key = "long_name" ELSE FALSE}
    ELSE {}
\* the value of the row's first long_name entry, else the row's own name
ExpectedDescription(item) ==
    IF LongNameEntries(item) = {} THEN Str(item.variableName)
    ELSE LET j == CHOOSE j \in LongNameEntries(item) :
                      \A k \in LongNameEntries(item) : j <= k
             value == item.metadata.items[j].value
         IN  IF value.k = "missing" THEN Str(item.variableName)
             ELSE IF value.k = "null" THEN None
             ELSE value
AvailableNames == {available.value[i].name : i \in 1..Len(available.value)}

(***************************************************************************)
(* C9: get_available_variables never raises and its mapping is never empty.*)
(* For a body with a "row" list whose named rows (a name, not "time") all  *)
(* have string names and are at least one, the mapping has exactly those   *)
(* names, each once, and gives each the value of the first long_name entry *)
(* of the last row of that name, or the name itself when that row has no   *)
(* long_name entry or the entry has no value. For a failed call, a body    *)
(* without a "row" list, a row list without named rows, or a name that is  *)
(* no string, it is exactly {"temperature": "Sea water potential           *)
(* temperature"}.                                                          *)
(***************************************************************************)
C9_AvailableVariables ==
    CatalogRead =>
        /\ ~available.raised
        /\ available.value # <<>>
        /\ IF HasRowList /\ NamedRows # {} /\ ~Surprise
           THEN /\ AvailableNames = RowNames
                /\ Len(available.value) = Cardinality(RowNames)
                /\ \A i \in 1..Len(available.value) :
                       available.value[i].description =
                           ExpectedDescription(LastRowNamed(available.value[i].name))
           ELSE available.value = FallbackVariables

\* a body with two named rows, one of them with a long_name entry, was read
C9_Witness ==
    /\ CatalogRead
    /\ HasRowList
    /\ ~Surprise
    /\ Cardinality(RowNames) = 2
    /\ \E i \in NamedRows : LongNameEntries(CatalogRowList[i]) # {}
    /\ available.value # FallbackVariables

\* the call failed, or a row's name was no string, and the fallback came back
C9_WitnessFallback ==
    /\ CatalogRead
    /\ ~IsBody(catalog) \/ Surprise
    /\ available.value = FallbackVariables


Finished(t) == task[t].pc = "done"
Finishes(t) == task[t].pc = "projection" /\ task'[t].pc = "done"
\* the projection GET failed, or its body does not parse
CycleFails(response, metadata, now) ==
    IF IsBody(response)
    THEN ~ParseProjectionResponse(JsonOf(response), metadata, now).ok
    ELSE TRUE
\* the metadata GET failed, or its body is no object with a "row" list
MetadataCallFailed(response) ==
    IF IsBody(response)
    THEN ~(JsonOf(response).top = "object" /\ JsonOf(response).row.k = "list")
    ELSE TRUE
TimePointMajor(response) ==
    IF IsBody(response) THEN JsonOf(response).variables.k # "list" ELSE FALSE

C8_MetadataNeverFailsCycle ==
    \A t \in Tasks :
        Finished(t) =>
            /\ task[t].outcome.ok =
                   ~CycleFails(task[t].projection_response, <<>>, task[t].now_ms)
            /\ ( /\ task[t].outcome.ok
                 /\ MetadataCallFailed(task[t].metadata_response)
                 /\ TimePointMajor(task[t].projection_response) )
               => \A i \in 1..Len(task[t].outcome.result.variables) :
                      task[t].outcome.result.variables[i].metadata = <<>>


(***************************************************************************)
(* Vocabulary of the unit-label property                                   *)
(***************************************************************************)
UnitsRead == cpc = "units"
IsTemperatureRow(i) ==
    IF CatalogRowList[i].obj THEN CatalogRowList[i].variableName = "temperature"
    ELSE FALSE
EntriesOf(i) ==
    IF CatalogRowList[i].metadata.k = "list" THEN CatalogRowList[i].metadata.items
    ELSE <<>>
\* places <<row, entry>> of the "units" entries of the rows named temperature
UnitPlaces ==
    {p \in (1..Len(CatalogRowList)) \X (1..MaxCatalog) :
        /\ IsTemperatureRow(p[1])
        /\ p[2] <= Len(EntriesOf(p[1]))
        /\ IF EntriesOf(p[1])[p[2]].obj THEN EntriesOf(p[1])[p[2]].key = "units"
           ELSE FALSE}
FirstUnitPlace ==
    CHOOSE p \in UnitPlaces :
        \A q \in UnitPlaces : p[1] < q[1] \/ (p[1] = q[1] /\ p[2] <= q[2])
UnitValueAt(p) == EntriesOf(p[1])[p[2]].value
\* everything the scan meets up to place p is what it expects: rows are
\* objects, metadata of temperature rows are arrays of objects
CleanUpTo(p) ==
    /\ \A i \in 1..p[1] : CatalogRowList[i].obj
    /\ \A i \in 1..p[1] :
           IsTemperatureRow(i) =>
               /\ CatalogRowList[i].metadata.k # "scalar"
               /\ \A j \in 1..Len(EntriesOf(i)) :
                      (i < p[1] \/ j < p[2]) => EntriesOf(i)[j].obj

(***************************************************************************)
(* C11: get_unit_label never raises; it returns the value of the "units"   *)
(* entry of the temperature row when the call succeeded and the entry      *)
(* exists with a string value, and "°C" in every other case: failed call,  *)
(* no such row, no such entry, a missing or malformed (null) value, a body *)
(* that is not what the scan expects.                                      *)
(***************************************************************************)
C11_UnitLabel ==
    UnitsRead =>
        /\ ~units.raised
        /\ units.value =
               IF (IF UnitPlaces # {}
                   THEN /\ CleanUpTo(FirstUnitPlace)
                        /\ UnitValueAt(FirstUnitPlace).k = "str"
                   ELSE FALSE)
               THEN UnitValueAt(FirstUnitPlace)
               ELSE FallbackUnit

\* the temperature row's "units" entry has a null value, and the label that
\* came back is neither a string nor the fallback
C11_Witness ==
    /\ UnitsRead
    /\ UnitPlaces # {}
    /\ UnitValueAt(FirstUnitPlace).k = "null"
    /\ units.value = None


MetadataRead == cpc = "metadata"
\* what item.get("metadata", []) gives for a row: its array as it is, [] when
\* the row has no "metadata", None when it is null
MetadataOfRow(item) ==
    IF item.metadata.k = "list" THEN MdList(item.metadata.items)
    ELSE IF item.metadata.k = "absent" THEN MdList(<<>>)
    ELSE MdNone

FloatOrAbsent(value) == value.k \in {"float", "nan", "none", "num"}

(***************************************************************************)
(* C13: in every ProjectionResult every series entry of every variable has *)
(* a value that is a float or absent, in both wire shapes and whatever the *)
(* payload carried as value.                                               *)
(***************************************************************************)
C13_FloatOrAbsent ==
    ParsedOk =>
        \A i \in 1..Len(ResultVars) :
            \A j \in 1..Len(ResultVars[i].series) :
                FloatOrAbsent(ResultVars[i].series[j].value)

\* a variables-array payload carried a string value and the series holds the
\* string
C13_Witness ==
    /\ ParsedOk
    /\ ViaVariablesArray
    /\ \E i \in 1..Len(ResultVars) :
           /\ ResultVars[i].series # <<>>
           /\ ResultVars[i].series[1].value = JNumStr(2)
           /\ ResultVars[i].current = JNumStr(2)


QueryPoint == Grid(Client.latitude, Client.longitude)

(***************************************************************************)
(* C14: the nearest grid point of a ProjectionResult is the payload's      *)
(* "closestGridPointWithData" when the payload has it and the query point  *)
(* when it has not; the flat nearest_grid_lon / nearest_grid_lat and those *)
(* of the legacy projector always agree with that point; longitude and     *)
(* latitude are the client's.                                              *)
(***************************************************************************)
C14_NearestGrid ==
    ParsedOk =>
        /\ outcome.result.nearest_grid =
               IF payload.grid.k = "absent" THEN QueryPoint ELSE payload.grid
        /\ outcome.result.longitude = Client.longitude
        /\ outcome.result.latitude = Client.latitude
        /\ outcome.result.nearest_grid.k = "object"
        /\ outcome.result.nearest_grid_lon = outcome.result.nearest_grid.lon
        /\ outcome.result.nearest_grid_lat = outcome.result.nearest_grid.lat
        /\ legacy.ok
        /\ legacy.nearest_grid_lon = outcome.result.nearest_grid.lon
        /\ legacy.nearest_grid_lat = outcome.result.nearest_grid.lat
        /\ legacy.longitude = Client.longitude
        /\ legacy.latitude = Client.latitude

\* "closestGridPointWithData" is null: the result's nearest grid is None, its
\* flat fields are the query point, and the legacy projector has raised
C14_Witness ==
    /\ ParsedOk
    /\ payload.grid = GridNull
    /\ outcome.result.nearest_grid = GridNull
    /\ outcome.result.nearest_grid_lon = Client.longitude
    /\ outcome.result.variables # <<>>
    /\ ~legacy.ok


\* the variable the legacy projector reads
ChosenName ==
    IF "temperature" \in ResultNames THEN "temperature" ELSE ResultVars[1].name
\* the samples <<rawTime, value>> the payload holds for a variable of the result
SamplesOf(name) ==
    IF ViaVariablesArray
    THEN {<<LastElement(name).data[i].rawTime, PyGet(LastElement(name).data[i].value)>> :
             i \in 1..Len(LastElement(name).data)}
    ELSE {<<TimeAt(p), ParseFloat(PairAt(p).value)>> : p \in PlacesOf(name)}
Earliest(samples) == CHOOSE t \in {x[1] : x \in samples} : \A x \in samples : t <= x[1]
Nearest(samples) ==
    {x \in samples : \A y \in samples : Abs(x[1] - now_ms) <= Abs(y[1] - now_ms)}

FirstPlaceOf(key) == CHOOSE p \in PlacesOf(key) : \A q \in PlacesOf(key) : p = q \/ Before(p, q)
\* the position the entry of place p takes in its variable's series: after the
\* entries of earlier instants and after those of the same instant that come
\* before it in the payload
RankOf(p) ==
    1 + Cardinality({q \in PlacesOf(KeyAt(p)) :
                        \/ TimeAt(q) < TimeAt(p)
                        \/ TimeAt(q) = TimeAt(p) /\ Before(q, p)})

(***************************************************************************)
(* C16: the time-point-major path transposes the payload. The result has   *)
(* one variable per distinct non-empty key, in the order the keys are      *)
(* first seen; a variable's series has one entry per occurrence of its key *)
(* (duplicates of an instant kept), in ascending order of time and, for    *)
(* equal instants, in payload order; its metadata is the supplied          *)
(* mapping's entry for the key, or an empty list when it has none.         *)
(***************************************************************************)
C16_Transpose ==
    (Parsed /\ WellFormedTimePoints) =>
        /\ outcome.ok
        /\ Len(ResultVars) = Cardinality(PayloadKeys)
        /\ ResultNames = PayloadKeys
        /\ \A i, j \in 1..Len(ResultVars) :
               i < j => Before(FirstPlaceOf(ResultVars[i].name),
                               FirstPlaceOf(ResultVars[j].name))
        /\ \A key \in PayloadKeys :
               /\ Len(ResultVar(key).series) = Cardinality(PlacesOf(key))
               /\ \A p \in PlacesOf(key) :
                      ResultVar(key).series[RankOf(p)] =
                          [timestamp |-> IsoFormat(TimeAt(p)),
                           value |-> ParseFloat(PairAt(p).value)]
               /\ ResultVar(key).metadata =
                      IF \E i \in 1..Len(variables_metadata) :
                             variables_metadata[i].name = key
                      THEN variables_metadata[
                               CHOOSE i \in 1..Len(variables_metadata) :
                                   variables_metadata[i].name = key].metadata.items
                      ELSE <<>>

\* two variables, the one seen first being inserted first although it is not
\* "temperature", which has the supplied metadata
C16_Witness ==
    /\ ParsedOk /\ WellFormedTimePoints
    /\ Len(ResultVars) = 2
    /\ ResultVars[1].name = "salinity"
    /\ ResultVars[1].metadata = <<>>
    /\ ResultVars[2].name = "temperature"
    /\ ResultVars[2].metadata = Units

\* two samples of one instant with different values: both kept, in payload order
C16_WitnessSameInstant ==
    /\ ParsedOk /\ WellFormedTimePoints
    /\ Len(ResultVars) = 1
    /\ Len(ResultVars[1].series) = 2
    /\ ResultVars[1].series[1].timestamp = ResultVars[1].series[2].timestamp
    /\ ResultVars[1].series[1].value # ResultVars[1].series[2].value


(***************************************************************************)
(* C17: within one refresh cycle exactly one metadata GET is issued, it    *)
(* has ended (with a body or a failure) before the projection GET is       *)
(* issued, exactly one projection GET is issued, and no call is repeated   *)
(* after a failure.                                                        *)
(***************************************************************************)
C17_OneSequence ==
    \A t \in Tasks :
        /\ task[t].pc = "idle" =>
               task[t].gets = [metadata |-> 0, projection |-> 0]
        /\ task[t].pc = "metadata" =>
               /\ task[t].gets = [metadata |-> 1, projection |-> 0]
               /\ task[t].metadata_response = NoResponse
        /\ task[t].pc = "projection" =>
               /\ task[t].gets = [metadata |-> 1, projection |-> 1]
               /\ task[t].metadata_response # NoResponse
               /\ task[t].projection_response = NoResponse
        /\ task[t].pc = "done" =>
               /\ task[t].gets = [metadata |-> 1, projection |-> 1]
               /\ task[t].metadata_response # NoResponse
               /\ task[t].projection_response # NoResponse

\* a cycle in which both calls failed has ended after one call of each
C17_Witness ==
    \E t \in Tasks :
        /\ Finished(t)
        /\ ~IsBody(task[t].metadata_response)
        /\ ~IsBody(task[t].projection_response)
        /\ task[t].gets = [metadata |-> 1, projection |-> 1]


(***************************************************************************)
(* C18: the enabled-variable list is written to the client before the      *)
(* metadata call and read after it; with at most one refresh in flight,    *)
(* every projection request names the list the registry reported at the    *)
(* start of its own cycle, however the registry changes during the cycle.  *)
(***************************************************************************)
C18_RequestNamesOwnList ==
    \A t \in Tasks :
        /\ task[t].pc = "metadata" =>
               /\ api_variables = task[t].enabled_vars
               /\ task[t].requested = <<>>
        /\ task[t].pc \in {"projection", "done"} =>
               task[t].requested = task[t].enabled_vars

\* the registry changed while the cycle was in flight, and the projection
\* request has been issued
C18_Witness ==
    \E t \in Tasks :
        /\ task[t].pc = "projection"
        /\ GetEnabledVariables(registry) # task[t].enabled_vars
        /\ task[t].requested = task[t].enabled_vars


Descending(points) ==
    \E i \in 1..Len(points) - 1 : points[i].rawTime > points[i + 1].rawTime

C19_WitnessTimePoints ==
    /\ ParsedOk
    /\ ViaTimePoints
    /\ variables_metadata # <<>>
    /\ Len(PointList) = 2
    /\ AllObjects(PointList)
    /\ PointList[1].rawTime > PointList[2].rawTime
    /\ Len(ResultVars) > 0


\* the enabled sensors of this coordinator's config entry
OwnEnabled(entities) ==
    {i \in 1..Len(entities) :
        /\ entities[i].config_entry_id = EntryId
        /\ entities[i].domain = "sensor"
        /\ ~entities[i].disabled}

\* the variable name _get_enabled_variables recovers from one entity
RecoveredNames(entity) ==
    LET enabled_vars == ScanEntities(<<>>, <<entity>>)
    IN  {enabled_vars[i] : i \in 1..Len(enabled_vars)}

Elements(list) == {list[i] : i \in 1..Len(list)}

HasUnderscore(s) == \E i \in 1..Len(s) : s[i] = "_"

(***************************************************************************)
(* C20: the variable name recovered from a sensor's unique_id is the name  *)
(* the sensor was created with, for every slug, and so the variables a     *)
(* refresh requests are those of the enabled sensors plus "temperature".   *)
(***************************************************************************)
C20_RoundTrip ==
    /\ \A i \in OwnEnabled(registry) :
           RecoveredNames(registry[i]) = {registry[i].variable_name}
    /\ \A t \in Tasks :
           (task[t].pc # "idle" /\ task[t].enabled_vars = GetEnabledVariables(registry))
           => Elements(task[t].enabled_vars) =
                  {registry[i].variable_name : i \in OwnEnabled(registry)}
                      \cup {<<"temperature">>}

\* C20, slugs without "_": a refresh has requested the variables of the
\* enabled sensors, one of them with "_" in its name
C20_Witness ==
    \E t \in Tasks, i \in OwnEnabled(registry) :
        /\ task[t].pc = "done"
        /\ task[t].enabled_vars = GetEnabledVariables(registry)
        /\ HasUnderscore(registry[i].variable_name)
        /\ Contains(task[t].requested, registry[i].variable_name)

\* C20, a slug with "_": a refresh has ended that did not request the
\* variable of an enabled sensor
C20_WitnessLost ==
    \E t \in Tasks, i \in OwnEnabled(registry) :
        /\ task[t].pc = "done"
        /\ task[t].enabled_vars = GetEnabledVariables(registry)
        /\ registry[i].unique_id =
               UniqueId(<<"sea", "_", "temperature">>, EntryId, registry[i].variable_name)
        /\ ~Contains(task[t].requested, registry[i].variable_name)


\* the name coordinator.py:60-62 reads out of a unique_id
NameIn(unique_id) ==
    LET parts == Split(unique_id)
    IN  Join(SubSeq(parts, 3, Len(parts)))

\* a refresh starts: the task reads the registry and issues its first call
Starts(t) == task[t].pc # "metadata" /\ task'[t].pc = "metadata"

(***************************************************************************)
(* C21: whatever the registry holds (nothing, only disabled entities,      *)
(* temperature disabled, entities of other config entries), the variable   *)
(* list of every projection request is not empty and contains              *)
(* "temperature", and the list a refresh reads contains nothing but        *)
(* "temperature" and the names of enabled sensors of its own entry.        *)
(***************************************************************************)
C21_RequestedVariables ==
    /\ [](\A t \in Tasks :
              task[t].pc \in {"projection", "done"} =>
                  /\ task[t].requested # <<>>
                  /\ Contains(task[t].requested, <<"temperature">>))
    /\ [][\A t \in Tasks :
              Starts(t) =>
                  Elements(task'[t].enabled_vars) \subseteq
                      {NameIn(registry[i].unique_id) : i \in OwnEnabled(registry)}
                          \cup {<<"temperature">>}]_vars

\* every sensor of the entry is disabled, temperature among them, another
\* entry has an enabled sensor, and a refresh has requested "temperature"
\* alone
C21_Witness ==
    \E t \in Tasks :
        /\ task[t].pc = "done"
        /\ registry # <<>>
        /\ OwnEnabled(registry) = {}
        /\ \E i \in 1..Len(registry) :
               registry[i].config_entry_id # EntryId /\ ~registry[i].disabled
        /\ task[t].enabled_vars = GetEnabledVariables(registry)
        /\ task[t].requested = << <<"temperature">> >>


(***************************************************************************)
(* Vocabulary of the configuration flow                                    *)
(***************************************************************************)
\* the step has returned for submitted input
Stepped == flow.pc = "done" \/ (flow.pc = "form" /\ flow.result.errors # "")
LookupFailed == ~flow.resp.ok
ReportsBoth ==
    /\ flow.resp.ok
    /\ flow.resp.nearest_grid_lon # MissingCoordinate
    /\ flow.resp.nearest_grid_lat # MissingCoordinate
Created == flow.result.type = "create_entry"
CreatedAt(lat, lon) ==
    /\ Created
    /\ entries # <<>>
    /\ Last(entries).data = flow.result.data
    /\ Last(entries).unique_id = flow.result.unique_id
    /\ flow.result.data.latitude = lat
    /\ flow.result.data.longitude = lon
\* the entries that existed when the step ran
Earlier == IF Created THEN SubSeq(entries, 1, Len(entries) - 1) ELSE entries
Aborted ==
    /\ flow.result.type = "abort"
    /\ flow.result.errors = "already_configured"
\* where the flow stores the entry: the nearest grid point when the lookup
\* reported one, else what the user entered
StoredAt(lat, lon) ==
    IF LocationId(lat, lon, flow.user_input.depth) \in UniqueIds(Earlier)
    THEN Aborted
    ELSE CreatedAt(lat, lon)

\* C22 as stated: a failed lookup always ends in an entry at the entered
\* coordinates, a lookup that reports both coordinates always in an entry
\* at the nearest grid point
C22_Original ==
    Stepped =>
        /\ flow.result.errors # "cannot_connect"
        /\ LookupFailed =>
               CreatedAt(flow.user_input.latitude, flow.user_input.longitude)
        /\ ReportsBoth =>
               CreatedAt(flow.resp.nearest_grid_lat, flow.resp.nearest_grid_lon)
        /\ Created =>
               flow.result.unique_id =
                   LocationId(flow.result.data.latitude, flow.result.data.longitude,
                              flow.user_input.depth)

(***************************************************************************)
(* C22: a failure of the nearest-grid lookup never ends the step with      *)
(* "cannot_connect".  The step stores the nearest grid point when the      *)
(* lookup reports both coordinates and the entered coordinates otherwise   *)
(* (lookup failed, or a coordinate was not reported); the unique id is     *)
(* built from the stored latitude, the stored longitude and the depth; the *)
(* entry is created unless an entry with that unique id exists, and then   *)
(* the step aborts with "already_configured" and creates nothing.          *)
(***************************************************************************)
C22_LookupFailureTolerated ==
    Stepped =>
        /\ flow.result.errors # "cannot_connect"
        /\ IF ReportsBoth
           THEN StoredAt(flow.resp.nearest_grid_lat, flow.resp.nearest_grid_lon)
           ELSE StoredAt(flow.user_input.latitude, flow.user_input.longitude)
        /\ Created =>
               flow.result.unique_id =
                   LocationId(flow.result.data.latitude, flow.result.data.longitude,
                              flow.user_input.depth)
        /\ ~Created => Earlier = entries

\* the lookup failed for a location that is already configured: the step
\* has aborted and no entry was created
C22_WitnessDuplicate ==
    /\ Stepped
    /\ LookupFailed
    /\ Aborted
    /\ Len(entries) = 1

\* the lookup failed and the entry was created at the entered coordinates
C22_Witness ==
    /\ Stepped
    /\ LookupFailed
    /\ CreatedAt(flow.user_input.latitude, flow.user_input.longitude)

\* the lookup reported a grid point other than the entered coordinates
C22_WitnessNearest ==
    /\ Stepped
    /\ ReportsBoth
    /\ CreatedAt(61, 6)
    /\ flow.user_input.latitude # 61

====
